---- MODULE Spec2Model ----
(***************************************************************************)
(* Schema and data-quality validation pipeline                            *)
(* (validation_module.py, tools.py, databricks_tools.py).                 *)
(*                                                                         *)
(* One behaviour is one call of run_validation_for_single_sheet: Init     *)
(* draws the call's arguments, the content of the file, and the history   *)
(* directory left by earlier runs; the actions are the synchronous        *)
(* stretches of the call, cut at the three external (LLM) calls.          *)
(***************************************************************************)
EXTENDS Integers, Sequences, FiniteSets, TLC

(***************************************************************************)
(* Bounds of the model and program constants.                             *)
(***************************************************************************)
MaxRows == 2
MaxRateLimits == 3
MaxToolRows == 4
max_retries == 3
NUM_HISTORICAL_SCHEMAS_TO_LOAD == 3
SampleLimit == 5

(***************************************************************************)
(* Python values.  None is a token; a dict is a function whose domain is  *)
(* its key set; a list is a sequence.                                      *)
(***************************************************************************)
PyNone == "<None>"

EmptyDict == [k \in {} |-> 0]

DictUpdate(d, e) ==
    [k \in (DOMAIN d) \cup (DOMAIN e) |-> IF k \in DOMAIN e THEN e[k] ELSE d[k]]

DictPop(d, key) == [k \in (DOMAIN d) \ {key} |-> d[k]]

Range(s) == {s[i] : i \in DOMAIN s}

Take(s, n) == IF Len(s) <= n THEN s ELSE SubSeq(s, 1, n)

RECURSIVE Filter(_, _)
Filter(s, keep) ==
    IF s = <<>> THEN <<>>
    ELSE IF Head(s) \in keep THEN <<Head(s)>> \o Filter(Tail(s), keep)
    ELSE Filter(Tail(s), keep)

\* positions of s (ascending) that are in the set pos
RECURSIVE PositionsFrom(_, _, _)
PositionsFrom(i, n, pos) ==
    IF i > n THEN <<>>
    ELSE IF i \in pos THEN <<i>> \o PositionsFrom(i + 1, n, pos)
    ELSE PositionsFrom(i + 1, n, pos)

\* first-occurrence order of the distinct elements (Series.unique)
RECURSIVE Unique(_)
Unique(s) ==
    IF s = <<>> THEN <<>>
    ELSE LET rest == Unique(SubSeq(s, 1, Len(s) - 1))
             last == s[Len(s)]
         IN  IF last \in Range(rest) THEN rest ELSE Append(rest, last)

(***************************************************************************)
(* Cells of a dataset.  n is the numeric value in tenths (1 is 10, 1.5 is *)
(* 15); s is the text of a string cell.  A boolean cell carries 1 or 0, a  *)
(* timestamp cell its integer view.                                        *)
(***************************************************************************)
NullCell == [kind |-> "null", n |-> 0, s |-> ""]
IntCell(i) == [kind |-> "int", n |-> 10 * i, s |-> ""]
FloatCell(t) == [kind |-> "float", n |-> t, s |-> ""]
StrCell(t) == [kind |-> "str", n |-> 0, s |-> t]
BoolCell(b) == [kind |-> "bool", n |-> IF b THEN 10 ELSE 0, s |-> ""]
TsCell == [kind |-> "ts", n |-> 1000000, s |-> ""]

IsNull(c) == c.kind = "null"
IsEmptyString(c) == c.kind = "str" /\ c.s = ""

\* pandas' dtype of a column as read from the file
InferDtype(cells) ==
    LET kinds == {cells[i].kind : i \in DOMAIN cells}
    IN  IF cells = <<>> THEN "object"
        ELSE IF "str" \in kinds THEN "object"
        ELSE IF kinds \subseteq {"null", "float", "int"}
             THEN (IF kinds = {"int"} THEN "int64" ELSE "float64")
        ELSE IF kinds = {"bool"} THEN "bool"
        ELSE IF kinds \subseteq {"ts", "null"} THEN "datetime64[ns]"
        ELSE "object"

\* the value a cell takes in a column of the given dtype (ints widen to floats)
CastCell(c, dtype) ==
    IF dtype = "float64" /\ c.kind = "int" THEN FloatCell(c.n) ELSE c

\* a DataFrame: column labels, their dtypes, the rows, and the index labels
Column(df, j) == [i \in DOMAIN df.rows |-> df.rows[i][j]]

ReadFrame(cols, rows) ==
    LET raw == [cols |-> cols, rows |-> rows]
        dts == [j \in DOMAIN cols |-> InferDtype(Column(raw, j))]
    IN  [cols |-> cols,
         dtypes |-> dts,
         rows |-> [i \in DOMAIN rows |->
                     [j \in DOMAIN cols |-> CastCell(rows[i][j], dts[j])]],
         idx |-> [i \in DOMAIN rows |-> i - 1]]

\* positions of the columns of df labelled name
Labelled(df, name) == {j \in DOMAIN df.cols : df.cols[j] = name}

\* rows kept by a set of row positions, index labels preserved
SelectRows(df, pos) ==
    LET keep == PositionsFrom(1, Len(df.rows), pos)
    IN  [df EXCEPT !.rows = [i \in DOMAIN keep |-> df.rows[keep[i]]],
                   !.idx = [i \in DOMAIN keep |-> df.idx[keep[i]]]]

\* df.dropna(how='all'): rows whose every cell is missing are removed
DropAllNullRows(df) ==
    SelectRows(df, {i \in DOMAIN df.rows :
                      \E j \in DOMAIN df.cols : ~IsNull(df.rows[i][j])})

DfEmpty(df) == Len(df.rows) = 0 \/ Len(df.cols) = 0

NonNull(cells) == Filter(cells, {c \in Range(cells) : ~IsNull(c)})

NullCount(cells) == Cardinality({i \in DOMAIN cells : IsNull(cells[i])})

(***************************************************************************)
(* tools.extract_schema_from_df.  It returns the schema and, because of   *)
(* dropna(inplace=True), changes the caller's dataset: both are results.  *)
(***************************************************************************)
\* line 33: a timestamp sample is replaced by its text
SampleValue(c) == IF c.kind = "ts" THEN StrCell("2024-01-01 00:00:00") ELSE c

ColumnDetails(df, j) ==
    [inferred_type |-> df.dtypes[j],
     sample_values |->
         LET u == Take(Unique(NonNull(Column(df, j))), SampleLimit)
         IN  [i \in DOMAIN u |-> SampleValue(u[i])],
     null_count |-> NullCount(Column(df, j))]

\* a dict of all sheets (read_excel with sheet_name=None) has no dropna
IsFrame(df) == "cols" \in DOMAIN df

NotAFrame == [sheets |-> "all"]

extract_df_after(df) == IF IsFrame(df) THEN DropAllNullRows(df) ELSE df

extract_schema_from_df(df, file_name, sheet_name) ==
    IF ~IsFrame(df)
    THEN [file_name |-> file_name, sheet_name |-> sheet_name, total_rows |-> 0,
          columns |-> EmptyDict, error |-> "AttributeError"]
    ELSE LET d == DropAllNullRows(df)
         IN  IF DfEmpty(d)
             THEN [file_name |-> file_name, sheet_name |-> sheet_name,
                   total_rows |-> 0, columns |-> EmptyDict]
             ELSE [file_name |-> file_name, sheet_name |-> sheet_name,
                   total_rows |-> Len(d.rows), total_columns |-> Len(d.cols),
                   columns |-> [c \in Range(d.cols) |->
                                  ColumnDetails(d, CHOOSE j \in Labelled(d, c) : TRUE)]]

(***************************************************************************)
(* The target table as the schema provider reports it                     *)
(* (databricks_tools.get_db_schema, Inspector.get_check_constraints).     *)
(* A table schema keeps the provider's column order.                      *)
(***************************************************************************)
OrdersSchema ==
    [order |-> <<"id", "amt">>,
     cols |-> [c \in {"id", "amt"} |->
                 IF c = "id"
                 THEN [type |-> "INTEGER", nullable |-> FALSE, primary_key |-> TRUE]
                 ELSE [type |-> "DOUBLE", nullable |-> FALSE, primary_key |-> FALSE]]]

OrdersChecks == <<[name |-> "ck_amt", sqltext |-> "amt > 1"]>>

\* a table with columns v and w; w is a nullable INTEGER without constraints
TableOf(type, nullable, primary_key) ==
    [order |-> <<"v", "w">>,
     cols |-> [c \in {"v", "w"} |->
                 IF c = "v"
                 THEN [type |-> type, nullable |-> nullable, primary_key |-> primary_key]
                 ELSE [type |-> "INTEGER", nullable |-> TRUE, primary_key |-> FALSE]]]

\* the tables of the provider: their columns and their CHECK constraints
Catalogue ==
    [t \in {"orders", "t_int", "t_dbl", "t_str", "t_date", "t_dec", "t_bool"} |->
       CASE t = "orders" -> [schema |-> OrdersSchema, checks |-> OrdersChecks]
         [] t = "t_int" ->
              [schema |-> TableOf("INTEGER", FALSE, TRUE),
               checks |-> <<[name |-> "ck_gt", sqltext |-> "v > 1"],
                            [name |-> "ck_ne", sqltext |-> "v != 2"]>>]
         [] t = "t_dbl" ->
              [schema |-> TableOf("DOUBLE", FALSE, FALSE),
               checks |-> <<[name |-> "ck_or", sqltext |-> "v > 1 OR w > 1"]>>]
         [] t = "t_str" ->
              [schema |-> TableOf("VARCHAR(255)", FALSE, TRUE),
               checks |-> <<[name |-> "ck_par", sqltext |-> "(v > 1)"]>>]
         [] t = "t_date" ->
              [schema |-> TableOf("DATE", FALSE, FALSE),
               checks |-> <<[name |-> "ck_col", sqltext |-> "v > w"]>>]
         [] t = "t_dec" ->
              [schema |-> TableOf("DECIMAL(10,2)", TRUE, FALSE),
               checks |-> <<[name |-> "ck_le", sqltext |-> "v <= 1.5"],
                            [name |-> "ck_eq", sqltext |-> "v = 2"]>>]
         [] OTHER ->
              [schema |-> TableOf("BOOLEAN", TRUE, FALSE),
               checks |-> <<[name |-> "ck_ge", sqltext |-> "v >= 2"],
                            [name |-> "ck_lt", sqltext |-> "v < 2"]>>]]

ExistingTables == DOMAIN Catalogue

\* None, for a table the provider does not have
NoSchema == [none |-> TRUE]

IsNoSchema(x) == "order" \notin DOMAIN x

get_db_schema(table_name) ==
    IF table_name \in ExistingTables THEN Catalogue[table_name].schema ELSE NoSchema

get_check_constraints(table_name) ==
    IF table_name \in ExistingTables THEN Catalogue[table_name].checks ELSE <<>>

(***************************************************************************)
(* tools.compare_schemas: exact-name set difference.                      *)
(***************************************************************************)
\* mutant: names are compared without regard to case
FoldCase(name) == IF name = "V" THEN "v" ELSE name

compare_schemas_ignoring_case(file_schema, db_schema) ==
    IF "error" \in DOMAIN file_schema \/ "columns" \notin DOMAIN file_schema
    THEN [missing_in_file |-> Range(db_schema.order), extra_in_file |-> {}]
    ELSE LET F == DOMAIN file_schema.columns
             S == Range(db_schema.order)
         IN  [columns_missing_from_file |->
                  {c \in S : \A f \in F : FoldCase(f) # FoldCase(c)},
              columns_extra_in_file |->
                  {f \in F : \A c \in S : FoldCase(f) # FoldCase(c)}]

compare_schemas(file_schema, db_schema) ==
    IF "error" \in DOMAIN file_schema \/ "columns" \notin DOMAIN file_schema
    THEN [missing_in_file |-> Range(db_schema.order), extra_in_file |-> {}]
    ELSE [columns_missing_from_file |->
              Range(db_schema.order) \ DOMAIN file_schema.columns,
          columns_extra_in_file |->
              (DOMAIN file_schema.columns) \ Range(db_schema.order)]

(***************************************************************************)
(* DataFrame.rename(columns=naming_mismatches): every label that is a key *)
(* of the map is replaced, the data stay in place.                         *)
(***************************************************************************)
RenameColumns(df, naming) ==
    [df EXCEPT !.cols = [j \in DOMAIN df.cols |->
                           IF df.cols[j] \in DOMAIN naming
                           THEN naming[df.cols[j]] ELSE df.cols[j]]]

(***************************************************************************)
(* Text conversions, by what they do on the texts of the model.           *)
(***************************************************************************)
\* str(type).split('(')[0].upper()
BaseTypeOf(t) ==
    CASE t = "VARCHAR(255)" -> "VARCHAR"
      [] t = "DECIMAL(10,2)" -> "DECIMAL"
      [] t = "integer" -> "INTEGER"
      [] OTHER -> t

\* any(t in db_type.upper() for t in ['CHAR', 'TEXT', 'STRING'])
IsDbStringType(t) ==
    t \in {"VARCHAR(255)", "VARCHAR", "CHAR", "TEXT", "STRING"}

\* the strings pd.to_numeric parses as a number, with their value in tenths;
\* "inf" parses as infinity, a value above every literal
NumericStrings == {"0", "1", "2", "1.5", "-5", "inf"}

InfiniteStrings == {"inf"}

StrToTenths(s) ==
    CASE s = "0" -> 0 [] s = "1" -> 10 [] s = "2" -> 20
      [] s = "1.5" -> 15 [] s = "-5" -> -50 [] s = "inf" -> 1000000000
      [] OTHER -> 0

\* pd.to_numeric(value, errors='coerce'): ok is FALSE where the result is NaN.
\* Booleans become 1 and 0, a timestamp column its integer view.
ToNumeric(c) ==
    CASE c.kind \in {"int", "float", "bool", "ts"} -> [ok |-> TRUE, n |-> c.n]
      [] c.kind = "str" /\ c.s \in NumericStrings -> [ok |-> TRUE, n |-> StrToTenths(c.s)]
      [] OTHER -> [ok |-> FALSE, n |-> 0]

\* pd.to_numeric(value, errors='raise') raises: the empty string does not, it
\* is converted to NaN
ToNumericRaises(c) == c.kind = "str" /\ c.s \notin NumericStrings \cup {""}

\* str(value)
IntText(i) ==
    CASE i = 0 -> "0" [] i = 1 -> "1" [] i = 2 -> "2" [] i = 3 -> "3"
      [] i = -5 -> "-5" [] OTHER -> "?"

StrOf(c) ==
    CASE c.kind = "str" -> c.s
      [] c.kind = "bool" -> (IF c.n = 10 THEN "True" ELSE "False")
      [] c.kind = "ts" -> "2024-01-01 00:00:00"
      [] c.kind = "int" -> IntText(c.n \div 10)
      [] c.kind = "float" /\ c.n % 10 = 0 -> IntText(c.n \div 10) \o ".0"
      [] c.kind = "float" /\ c.n = 15 -> "1.5"
      [] OTHER -> "nan"

(***************************************************************************)
(* tools.validate_data_types.                                             *)
(***************************************************************************)
pandas_to_sql_map ==
    << <<"int64", <<"INTEGER", "INT">> >>,
       <<"float64", <<"REAL", "FLOAT", "NUMERIC", "DOUBLE">> >>,
       <<"object", <<"TEXT", "VARCHAR", "CHAR", "DATE", "DATETIME", "TIMESTAMP", "STRING">> >>,
       <<"datetime64[ns]", <<"DATE", "DATETIME", "TIMESTAMP">> >>,
       <<"bool", <<"BOOLEAN", "BOOL">> >> >>

\* the inversion loop: a later entry replaces an earlier one unless it is 'object'
RECURSIVE InvertMap(_, _)
InvertMap(i, acc) ==
    IF i > Len(pandas_to_sql_map) THEN acc
    ELSE LET pd_type == pandas_to_sql_map[i][1]
             sqls == Range(pandas_to_sql_map[i][2])
             put == {t \in sqls : t \notin DOMAIN acc \/ pd_type # "object"}
         IN  InvertMap(i + 1,
                 [t \in (DOMAIN acc) \cup put |-> IF t \in put THEN pd_type ELSE acc[t]])

sql_to_pandas_map == InvertMap(1, EmptyDict)

\* the samples gathered for a flagged column (lines 206-234)
\* lines 213-218 for one value: "append" (ValueError or TypeError from
\* pd.to_numeric, float or int, or a fractional part), "skip" (a whole number),
\* or "overflow": int(float(val)) of an infinity raises OverflowError, which
\* the inner except does not catch
IntSampleStep(v) ==
    CASE ToNumericRaises(v) -> "append"
      [] v.kind = "str" /\ v.s = "" -> "append"
      [] v.kind = "str" /\ v.s \in InfiniteStrings -> "overflow"
      [] ToNumeric(v).n % 10 # 0 -> "append"
      [] OTHER -> "skip"

\* the loop of lines 212-219; an OverflowError leaves the loop for the outer
\* except of line 233 with the samples gathered so far
RECURSIVE IntSamples(_, _)
IntSamples(vals, acc) ==
    IF vals = <<>> THEN acc
    ELSE LET step == IntSampleStep(Head(vals))
             acc2 == IF step = "append" THEN Append(acc, StrOf(Head(vals))) ELSE acc
         IN  IF step = "overflow" THEN acc
             ELSE IF Len(acc2) >= SampleLimit THEN acc2
             ELSE IntSamples(Tail(vals), acc2)

\* the loop of lines 222-227
RECURSIVE FloatSamples(_, _)
FloatSamples(vals, acc) ==
    IF vals = <<>> THEN acc
    ELSE LET acc2 == IF ToNumericRaises(Head(vals))
                     THEN Append(acc, StrOf(Head(vals))) ELSE acc
         IN  IF Len(acc2) >= SampleLimit THEN acc2
             ELSE FloatSamples(Tail(vals), acc2)

SampleInvalidValues(cells, expected, file_dtype) ==
    LET vals == Unique(NonNull(cells))
    IN  CASE expected = "int64" /\ file_dtype = "object" -> IntSamples(vals, <<>>)
          [] expected = "float64" /\ file_dtype = "object" -> FloatSamples(vals, <<>>)
          [] file_dtype = "object" ->
                 [i \in DOMAIN Take(vals, SampleLimit) |-> StrOf(vals[i])]
          [] OTHER -> <<>>

\* mutant: no exception for date types read as text
IsMismatchWithoutDateException(db_type_base, file_dtype) ==
    /\ db_type_base \in DOMAIN sql_to_pandas_map
    /\ file_dtype # sql_to_pandas_map[db_type_base]

\* lines 194-201
IsMismatch(db_type_base, file_dtype) ==
    /\ db_type_base \in DOMAIN sql_to_pandas_map
    /\ file_dtype # sql_to_pandas_map[db_type_base]
    /\ ~(db_type_base \in {"DATE", "DATETIME", "TIMESTAMP"} /\ file_dtype = "object")

TypeViolationsOf(df, db_schema, name) ==
    LET at == Labelled(df, name)
    IN  IF Cardinality(at) # 1 THEN <<>>
        ELSE LET j == CHOOSE x \in at : TRUE
                 file_dtype == df.dtypes[j]
                 base == BaseTypeOf(db_schema.cols[name].type)
             IN  IF IsMismatch(base, file_dtype)
                 THEN << [column |-> name,
                          expected_db_type |-> base,
                          found_file_type |-> file_dtype,
                          sample_invalid_values |->
                              Take(SampleInvalidValues(Column(df, j),
                                       sql_to_pandas_map[base], file_dtype),
                                   SampleLimit)] >>
                 ELSE <<>>

RECURSIVE TypeLoop(_, _, _)
TypeLoop(df, db_schema, i) ==
    IF i > Len(db_schema.order) THEN <<>>
    ELSE TypeViolationsOf(df, db_schema, db_schema.order[i])
         \o TypeLoop(df, db_schema, i + 1)

validate_data_types(df, db_schema) == TypeLoop(df, db_schema, 1)

(***************************************************************************)
(* tools.run_data_quality_checks.                                         *)
(***************************************************************************)
\* db_col_name in sqltext (substring test), on the constraint texts of the model
MentionedIn(sqltext) ==
    CASE sqltext = "amt > 1" -> {"amt"}
      [] sqltext \in {"v > 1", "v != 2", "v <= 1.5", "v = 2", "v >= 2", "v < 2",
                      "(v > 1)"} -> {"v"}
      [] sqltext \in {"v > 1 OR w > 1", "v > w"} -> {"v", "w"}
      [] OTHER -> {}

\* re.match of  col (>=|<=|>|<|!=|=) number  at the start of the text
\* (the pattern is not anchored at the end: text after the number is ignored)
ParseCheck(sqltext, col) ==
    CASE sqltext = "amt > 1" /\ col = "amt" -> [matched |-> TRUE, op |-> ">", value |-> 10]
      [] sqltext = "v > 1" /\ col = "v" -> [matched |-> TRUE, op |-> ">", value |-> 10]
      [] sqltext = "v != 2" /\ col = "v" -> [matched |-> TRUE, op |-> "!=", value |-> 20]
      [] sqltext = "v <= 1.5" /\ col = "v" -> [matched |-> TRUE, op |-> "<=", value |-> 15]
      [] sqltext = "v = 2" /\ col = "v" -> [matched |-> TRUE, op |-> "=", value |-> 20]
      [] sqltext = "v >= 2" /\ col = "v" -> [matched |-> TRUE, op |-> ">=", value |-> 20]
      [] sqltext = "v < 2" /\ col = "v" -> [matched |-> TRUE, op |-> "<", value |-> 20]
      [] sqltext = "v > 1 OR w > 1" /\ col = "v" ->
             [matched |-> TRUE, op |-> ">", value |-> 10]
      [] OTHER -> [matched |-> FALSE, op |-> "", value |-> 0]

\* the complement predicate of lines 355-360, on a non-NaN number
Violates(op, n, value) ==
    CASE op = ">" -> n <= value
      [] op = ">=" -> n < value
      [] op = "<" -> n >= value
      [] op = "<=" -> n > value
      [] op = "!=" -> n = value
      [] op = "=" -> n # value
      [] OTHER -> FALSE

IndexLabels(df, pos) ==
    LET keep == PositionsFrom(1, Len(df.rows), pos)
    IN  [i \in DOMAIN keep |-> df.idx[keep[i]]]

\* mutant: empty strings are never counted
NotNullCheckNullsOnly(df, j, name, details) ==
    LET cells == Column(df, j)
        nulls == {i \in DOMAIN cells : IsNull(cells[i])}
    IN  IF ~details.nullable /\ nulls # {}
        THEN << [column |-> name,
                 check |-> "not_null_violation",
                 count |-> Cardinality(nulls),
                 affected_rows_sample_indices |->
                     Take(IndexLabels(df, nulls), SampleLimit),
                 severity |-> "high"] >>
        ELSE <<>>

\* lines 277-303
NotNullCheck(df, j, name, details) ==
    LET cells == Column(df, j)
        isobj == df.dtypes[j] = "object"
        nulls == {i \in DOMAIN cells : IsNull(cells[i])}
        empties == IF isobj THEN {i \in DOMAIN cells : IsEmptyString(cells[i])} ELSE {}
        null_count == Cardinality(nulls)
                      + (IF ~IsDbStringType(details.type) THEN Cardinality(empties) ELSE 0)
    IN  IF ~details.nullable /\ null_count > 0
        THEN << [column |-> name,
                 check |-> "not_null_violation",
                 count |-> null_count,
                 affected_rows_sample_indices |->
                     Take(IndexLabels(df, nulls \cup empties), SampleLimit),
                 severity |-> "high"] >>
        ELSE <<>>

\* mutant: rows whose key is an empty string are kept
PrimaryKeyCheckKeepingEmpty(df, j, name, details) ==
    LET cells == Column(df, j)
        kept == {i \in DOMAIN cells : ~IsNull(cells[i])}
        dups == {i \in kept : \E k \in kept : k # i /\ cells[k] = cells[i]}
        dupvals == Unique([i \in DOMAIN PositionsFrom(1, Len(cells), dups) |->
                             cells[PositionsFrom(1, Len(cells), dups)[i]]])
    IN  IF details.primary_key /\ Len(dupvals) > 0
        THEN << [column |-> name,
                 check |-> "primary_key_violation",
                 distinct_keys_duplicated |-> Len(dupvals),
                 total_duplicate_records |-> Cardinality(dups),
                 sample_duplicate_values |->
                     [i \in DOMAIN Take(dupvals, SampleLimit) |-> StrOf(dupvals[i])],
                 severity |-> "high"] >>
        ELSE <<>>

\* lines 306-329
PrimaryKeyCheck(df, j, name, details) ==
    LET cells == Column(df, j)
        isobj == df.dtypes[j] = "object"
        kept == {i \in DOMAIN cells :
                    ~IsNull(cells[i]) /\ ~(isobj /\ IsEmptyString(cells[i]))}
        dups == {i \in kept : \E k \in kept : k # i /\ cells[k] = cells[i]}
        dupvals == Unique([i \in DOMAIN PositionsFrom(1, Len(cells), dups) |->
                             cells[PositionsFrom(1, Len(cells), dups)[i]]])
    IN  IF details.primary_key /\ Len(dupvals) > 0
        THEN << [column |-> name,
                 check |-> "primary_key_violation",
                 distinct_keys_duplicated |-> Len(dupvals),
                 total_duplicate_records |-> Cardinality(dups),
                 sample_duplicate_values |->
                     [i \in DOMAIN Take(dupvals, SampleLimit) |-> StrOf(dupvals[i])],
                 severity |-> "high"] >>
        ELSE <<>>

\* mutant: the constraint is evaluated on the coercible values whatever else
\* the column holds
OneConstraintOnCoercible(df, j, name, constraint) ==
    LET cells == Column(df, j)
        numeric_col == [i \in DOMAIN cells |-> ToNumeric(cells[i])]
        m == ParseCheck(constraint.sqltext, name)
        violated == {i \in DOMAIN cells :
                        numeric_col[i].ok /\ Violates(m.op, numeric_col[i].n, m.value)}
        affected == Take(PositionsFrom(1, Len(cells), violated), SampleLimit)
    IN  IF m.matched /\ violated # {}
        THEN << [column |-> name,
                 check |-> "check_constraint_violation",
                 constraint_name |-> constraint.name,
                 sqltext |-> constraint.sqltext,
                 count |-> Cardinality(violated),
                 affected_rows_sample_indices |->
                     [i \in DOMAIN affected |-> df.idx[affected[i]]],
                 sample_violating_values |->
                     [i \in DOMAIN affected |-> StrOf(cells[affected[i]])],
                 severity |-> "medium"] >>
        ELSE <<>>

\* lines 338-384 for one constraint of the column
OneConstraint(df, j, name, constraint) ==
    LET cells == Column(df, j)
        numeric_col == [i \in DOMAIN cells |-> ToNumeric(cells[i])]
        non_numeric_present ==
            /\ \E i \in DOMAIN cells : ~numeric_col[i].ok
            /\ ~(\A i \in DOMAIN cells : IsNull(cells[i]))
        m == ParseCheck(constraint.sqltext, name)
        violated == {i \in DOMAIN cells :
                        numeric_col[i].ok /\ Violates(m.op, numeric_col[i].n, m.value)}
        affected == Take(PositionsFrom(1, Len(cells), violated), SampleLimit)
    IN  IF m.matched /\ ~non_numeric_present /\ violated # {}
        THEN << [column |-> name,
                 check |-> "check_constraint_violation",
                 constraint_name |-> constraint.name,
                 sqltext |-> constraint.sqltext,
                 count |-> Cardinality(violated),
                 affected_rows_sample_indices |->
                     [i \in DOMAIN affected |-> df.idx[affected[i]]],
                 sample_violating_values |->
                     [i \in DOMAIN affected |-> StrOf(cells[affected[i]])],
                 severity |-> "medium"] >>
        ELSE <<>>

RECURSIVE ConstraintLoop(_, _, _, _, _)
ConstraintLoop(df, j, name, checks, i) ==
    IF i > Len(checks) THEN <<>>
    ELSE (IF name \in MentionedIn(checks[i].sqltext)
          THEN OneConstraint(df, j, name, checks[i]) ELSE <<>>)
         \o ConstraintLoop(df, j, name, checks, i + 1)

\* mutant: with several columns under the label, the first one is checked
QualityViolationsOfFirstLabelled(df, db_schema, checks, name) ==
    LET at == Labelled(df, name)
    IN  IF at = {} THEN <<>>
        ELSE LET j == CHOOSE x \in at : \A y \in at : x <= y
                 details == db_schema.cols[name]
             IN  NotNullCheck(df, j, name, details)
                 \o PrimaryKeyCheck(df, j, name, details)
                 \o ConstraintLoop(df, j, name, checks, 1)

\* lines 265-384 for one table column
QualityViolationsOf(df, db_schema, checks, name) ==
    LET at == Labelled(df, name)
    IN  IF Cardinality(at) # 1 THEN <<>>
        ELSE LET j == CHOOSE x \in at : TRUE
                 details == db_schema.cols[name]
             IN  NotNullCheck(df, j, name, details)
                 \o PrimaryKeyCheck(df, j, name, details)
                 \o ConstraintLoop(df, j, name, checks, 1)

RECURSIVE QualityLoop(_, _, _, _)
QualityLoop(df, db_schema, checks, i) ==
    IF i > Len(db_schema.order) THEN <<>>
    ELSE QualityViolationsOf(df, db_schema, checks, db_schema.order[i])
         \o QualityLoop(df, db_schema, checks, i + 1)

run_data_quality_checks(df, db_schema, table_name) ==
    QualityLoop(df, db_schema, get_check_constraints(table_name), 1)

(***************************************************************************)
(* The schema history directory (save_schema_to_history,                  *)
(* load_historical_schemas).  A file name is the pair of the safe table   *)
(* name and the timestamp; the directory maps file names to contents.     *)
(***************************************************************************)
\* "".join(c if c.isalnum() else "_" for c in table_name)
SafeName(table_name) ==
    CASE table_name = "my-t" -> "my_t"
      [] table_name = "my.t" -> "my_t"
      [] table_name = "orders-schema-v2" -> "orders_schema_v2"
      [] OTHER -> table_name

Corrupt == [corrupt |-> TRUE]

SnapshotOf(file_schema) ==
    [columns |-> IF "columns" \in DOMAIN file_schema
                 THEN file_schema.columns ELSE EmptyDict]

\* the directory after a save at time ts; io_ok = FALSE is a failed write
StoreAfterSave(dir, table_name, file_schema, ts, io_ok) ==
    IF ~io_ok THEN dir
    ELSE LET name == [safe |-> SafeName(table_name), ts |-> ts]
         IN  [f \in (DOMAIN dir) \cup {name} |->
                 IF f = name THEN SnapshotOf(file_schema) ELSE dir[f]]

\* the safe names that begin with safe followed by "_schema_"
SchemaPrefixed(safe) ==
    CASE safe = "orders" -> {"orders_schema_v2"}
      [] OTHER -> {}

\* glob(f"{safe_table_name}_schema_*.json") over the names
\* f"{f.safe}_schema_{f.ts}.json": the star matches any run of characters
GlobMatches(safe, f) == f.safe = safe \/ f.safe \in SchemaPrefixed(safe)

\* the order of the strings f"{safe}_schema_": a digit sorts before a letter,
\* so "orders_schema_2..." comes before "orders_schema_v2_schema_2..."
PathRank(safe) ==
    CASE safe = "ghost" -> 0
      [] safe = "my_t" -> 1
      [] safe = "orders" -> 2
      [] safe = "orders_schema_v2" -> 3
      [] OTHER -> 4

\* the order of sorted() on the path strings; timestamps have a fixed width
PathLess(f, g) ==
    IF f.safe = g.safe THEN f.ts < g.ts ELSE PathRank(f.safe) < PathRank(g.safe)

\* sorted(glob(...), reverse=True): the matching names, greatest path first
RECURSIVE NewestFirst(_)
NewestFirst(names) ==
    IF names = {} THEN <<>>
    ELSE LET top == CHOOSE f \in names : \A g \in names \ {f} : PathLess(g, f)
         IN  <<top>> \o NewestFirst(names \ {top})

\* a load that gives up when one of the files it reads is corrupt
LoadFailingOnCorrupt(dir, table_name, num_history) ==
    LET safe == SafeName(table_name)
        files == NewestFirst({f \in DOMAIN dir : GlobMatches(safe, f)})
        to_load == Take(files, num_history)
    IN  IF \E i \in DOMAIN to_load : dir[to_load[i]] = Corrupt
        THEN <<>>
        ELSE [i \in DOMAIN to_load |-> dir[to_load[i]]]

load_historical_schemas(dir, table_name, num_history) ==
    LET safe == SafeName(table_name)
        files == NewestFirst({f \in DOMAIN dir : GlobMatches(safe, f)})
        to_load == Take(files, num_history)
        good == {i \in DOMAIN to_load : dir[to_load[i]] # Corrupt}
        keep == PositionsFrom(1, Len(to_load), good)
    IN  [i \in DOMAIN keep |-> dir[to_load[keep[i]]]]

(***************************************************************************)
(* The call's arguments and the file.                                     *)
(***************************************************************************)
FilePaths == {"in/orders.csv", "in/book.xlsx", "in/notes.txt"}

\* os.path.basename
Basename(path) ==
    CASE path = "in/orders.csv" -> "orders.csv"
      [] path = "in/book.xlsx" -> "book.xlsx"
      [] path = "in/notes.txt" -> "notes.txt"
      [] OTHER -> path

\* file_path.endswith(...)
FileKind(path) ==
    CASE path = "in/orders.csv" -> "csv"
      [] path = "in/book.xlsx" -> "excel"
      [] OTHER -> "unsupported"

SheetNames == {"csv_data", "Sheet1"}

TableNames == {"orders", "ghost", PyNone}

FileCols == <<"id", "qty">>

IdCells == {NullCell, IntCell(1)}
QtyCells == {NullCell, IntCell(1)}

FileRows ==
    UNION {[1..n -> {<<a, b>> : a \in IdCells, b \in QtyCells}] : n \in 0..MaxRows}

\* the directories an earlier run can have left
OldColumns == [c \in {"id"} |->
                 [inferred_type |-> "int64", sample_values |-> <<IntCell(1)>>,
                  null_count |-> 0]]

InitialStores ==
    { EmptyDict,
      [f \in {[safe |-> "orders", ts |-> 0]} |-> [columns |-> OldColumns]] }

\* what the read of lines 451-459 gives: a frame, all sheets, or an exception
ReadOutcome(in) ==
    LET read_sheet_name == IF in.sheet_name # "csv_data" THEN in.sheet_name ELSE PyNone
        kind == FileKind(in.file_path)
    IN  CASE kind = "unsupported" -> [raised |-> TRUE, df |-> NotAFrame]
          [] ~in.readable -> [raised |-> TRUE, df |-> NotAFrame]
          [] kind = "excel" /\ read_sheet_name = PyNone -> [raised |-> FALSE, df |-> NotAFrame]
          [] OTHER -> [raised |-> FALSE, df |-> ReadFrame(FileCols, in.rows)]

ReadSheetName(in) == IF in.sheet_name # "csv_data" THEN in.sheet_name ELSE PyNone

(***************************************************************************)
(* Reports.                                                                *)
(***************************************************************************)
EngineErrorReport == [error |-> "Failed to create Databricks engine."]

CriticalErrorReport(e) == [error |-> e]

\* an except branch that reports neither a status nor an error
SheetErrorReportUnmarked(file_path, sheet_name, at, e) ==
    [file_name |-> file_path,
     sheet_name |-> sheet_name,
     validated_at |-> at]

\* the except branch of _run_validation_for_sheet_internal (lines 423-430)
SheetErrorReport(file_path, sheet_name, at, e) ==
    [file_name |-> file_path,
     sheet_name |-> sheet_name,
     validated_at |-> at,
     validation_summary |-> [status |-> "Error", details |-> e],
     error |-> e]

\* lines 474-483: file_name and sheet_name first, then schema_mismatch, then the rest
FinalReport(sheet_report, schema_analysis) ==
    LET head == [k \in {"file_name", "sheet_name"} \cap DOMAIN sheet_report |->
                   sheet_report[k]]
        rest == DictPop(DictPop(sheet_report, "file_name"), "sheet_name")
    IN  DictUpdate(DictUpdate(head, [schema_mismatch |-> schema_analysis]), rest)

\* _create_violation_summary (lines 357-368); v["count"] raises KeyError
SummaryRaises(types, dq) == \E i \in DOMAIN dq : "count" \notin DOMAIN dq[i]

CreateViolationSummary(types, dq) ==
    [type_mismatch_summary |->
         [i \in DOMAIN types |->
             [column |-> types[i].column, expected |-> types[i].expected_db_type,
              found |-> types[i].found_file_type]],
     data_quality_issue_summary |->
         [i \in DOMAIN dq |->
             [column |-> dq[i].column, check |-> dq[i].check, count |-> dq[i].count,
              severity |-> IF "severity" \in DOMAIN dq[i]
                           THEN dq[i].severity ELSE "medium"]]]

\* lines 374-391
BaseReport(file_path, sheet_name, file_schema, at, types, dq, rules) ==
    [file_name |-> Basename(file_path),
     sheet_name |-> sheet_name,
     total_rows_checked |-> file_schema.total_rows,
     validated_at |-> at,
     data_type_mismatch |-> types,
     data_quality_issues |-> dq,
     dynamic_validation_rules |-> rules,
     validation_summary |-> EmptyDict,
     data_quality_score |-> EmptyDict,
     triage_plan |-> <<>>,
     append_upsert_suggestion |-> EmptyDict,
     schema_drift |-> EmptyDict,
     root_cause_analysis |-> EmptyDict,
     overall_analysis |-> EmptyDict]

(***************************************************************************)
(* What the external services can answer.  A response is described by how *)
(* json.loads and the code that follows treat its text.                   *)
(***************************************************************************)
NoResponse == [kind |-> "none"]

NamingMaps == UNION {[D -> {"id", "amt"}] : D \in SUBSET {"id", "qty"}}

\* naming: "absent" (no naming_mismatches key), "null" (not a mapping), "map"
ReconResponses ==
    {[kind |-> "text", naming |-> "absent", map |-> EmptyDict],
     [kind |-> "json_other", naming |-> "absent", map |-> EmptyDict],
     [kind |-> "object", naming |-> "absent", map |-> EmptyDict],
     [kind |-> "object", naming |-> "null", map |-> EmptyDict]}
    \cup {[kind |-> "object", naming |-> "map", map |-> m] : m \in NamingMaps}

\* kind "empty" is the empty text, "text" is not JSON, "json" parses
RulesResponses == {[kind |-> "empty"], [kind |-> "text"], [kind |-> "json"]}

NarrativeFields ==
    [validation_summary |-> [status |-> "Warning"],
     data_quality_score |-> [score |-> 70]]

\* objects that also carry keys of the deterministic sections
NarrativeBodies ==
    {NarrativeFields,
     DictUpdate(NarrativeFields,
                [total_rows_checked |-> 99, data_type_mismatch |-> <<>>,
                 data_quality_issues |-> <<>>]),
     DictUpdate(NarrativeFields,
                [file_name |-> "other.csv", sheet_name |-> "other", validated_at |-> 0])}

\* "json_raises": valid JSON that dict.update rejects ([1], 5, null);
\* "json_noop": valid JSON that dict.update accepts and ignores ([], "")
NarrativeResponses ==
    {[kind |-> "text", body |-> EmptyDict],
     [kind |-> "json_raises", body |-> EmptyDict],
     [kind |-> "json_noop", body |-> EmptyDict]}
    \cup {[kind |-> "object", body |-> b] : b \in NarrativeBodies}

\* json.loads(schema_response_str) of an object response
ParsedRecon(resp) ==
    IF resp.naming = "absent" THEN [analysis |-> "text"]
    ELSE IF resp.naming = "null" THEN [analysis |-> "text", naming_mismatches |-> PyNone]
    ELSE [analysis |-> "text", naming_mismatches |-> resp.map]

Unset == [unset |-> TRUE]

VARIABLES
    pc,                   \* where the call is
    inp,                  \* the arguments, the file and the environment
    df,                   \* the caller's dataset (current_df)
    file_schema, db_schema, raw_comparison,
    schema_analysis_json, mapped_df, type_violations, dq_violations,
    dynamic_rules, base_report, historical_schemas,
    attempt, response,    \* get_llm_streaming_response
    result,               \* the report returned to the caller
    store,                \* the schema history directory
    now,                  \* the clock, in timestamp units
    rateLimited,          \* rate-limit failures so far
    sleeps,               \* the delays slept, in seconds
    events,               \* log of the calls made
    saved                 \* log of the arguments of save_schema_to_history

vars == <<pc, inp, df, file_schema, db_schema, raw_comparison,
          schema_analysis_json, mapped_df, type_violations, dq_violations,
          dynamic_rules, base_report, historical_schemas, attempt, response,
          result, store, now, rateLimited, sleeps, events, saved>>

Inputs ==
    [file_path : FilePaths, sheet_name : SheetNames, table_name : TableNames,
     engine_ok : BOOLEAN, readable : BOOLEAN, rows : FileRows]

Init ==
    /\ pc = "start"
    /\ inp \in Inputs
    /\ df = Unset
    /\ file_schema = Unset
    /\ db_schema = Unset
    /\ raw_comparison = Unset
    /\ schema_analysis_json = EmptyDict
    /\ mapped_df = Unset
    /\ type_violations = <<>>
    /\ dq_violations = <<>>
    /\ dynamic_rules = <<>>
    /\ base_report = Unset
    /\ historical_schemas = <<>>
    /\ attempt = 0
    /\ response = NoResponse
    /\ result = Unset
    /\ store \in InitialStores
    /\ now = 1
    /\ rateLimited = 0
    /\ sleeps = <<>>
    /\ events = <<>>
    /\ saved = <<>>

(***************************************************************************)
(* run_validation_for_single_sheet up to the reconciliation call:         *)
(* engine, read, extraction, table schema, name comparison.               *)
(***************************************************************************)
\* mutant: only the error key is checked, an empty column set passes
ExtractionFailedErrorOnly(fs) == "error" \in DOMAIN fs

\* the check of lines 305-306
ExtractionFailed(fs) == "error" \in DOMAIN fs \/ fs.columns = EmptyDict

StartOutcome(in, at) ==
    LET rd == ReadOutcome(in)
        rsn == ReadSheetName(in)
        fs == extract_schema_from_df(rd.df, in.file_path, rsn)
        dfa == extract_df_after(rd.df)
        db == get_db_schema(in.table_name)
        none == [df |-> Unset, file_schema |-> Unset, db_schema |-> Unset,
                 raw_comparison |-> Unset]
    IN  CASE ~in.engine_ok ->
               none @@ [exit |-> "returned", result |-> EngineErrorReport,
                        events |-> <<"get_engine">>]
          [] in.engine_ok /\ rd.raised ->
               none @@ [exit |-> "returned",
                        result |-> CriticalErrorReport("A critical error occurred: read"),
                        events |-> <<"get_engine", "read_file">>]
          [] in.engine_ok /\ ~rd.raised /\ in.table_name = PyNone ->
               [none EXCEPT !.df = rd.df]
               @@ [exit |-> "returned",
                   result |-> CriticalErrorReport("A critical error occurred: no table name"),
                   events |-> <<"get_engine", "read_file">>]
          [] in.engine_ok /\ ~rd.raised /\ in.table_name # PyNone /\ ExtractionFailed(fs) ->
               [none EXCEPT !.df = dfa, !.file_schema = fs]
               @@ [exit |-> "returned",
                   result |-> FinalReport(
                       SheetErrorReport(in.file_path, rsn, at, "Schema extraction failed"),
                       EmptyDict),
                   events |-> <<"get_engine", "read_file", "extract_schema">>]
          [] in.engine_ok /\ ~rd.raised /\ in.table_name # PyNone /\ ~ExtractionFailed(fs)
             /\ IsNoSchema(db) ->
               [none EXCEPT !.df = dfa, !.file_schema = fs]
               @@ [exit |-> "returned",
                   result |-> FinalReport(
                       SheetErrorReport(in.file_path, rsn, at, "Database table does not exist"),
                       EmptyDict),
                   events |-> <<"get_engine", "read_file", "extract_schema",
                                "get_db_schema">>]
          [] OTHER ->
               [df |-> dfa, file_schema |-> fs, db_schema |-> db,
                raw_comparison |-> compare_schemas(fs, db),
                exit |-> "recon_call", result |-> Unset,
                events |-> <<"get_engine", "read_file", "extract_schema",
                             "get_db_schema", "compare_schemas", "recon_call">>]

Start ==
    /\ pc = "start"
    /\ LET o == StartOutcome(inp, now)
       IN  /\ pc' = o.exit
           /\ df' = o.df
           /\ file_schema' = o.file_schema
           /\ db_schema' = o.db_schema
           /\ raw_comparison' = o.raw_comparison
           /\ result' = o.result
           /\ events' = o.events
    /\ attempt' = 0
    /\ UNCHANGED <<inp, schema_analysis_json, mapped_df, type_violations, dq_violations,
                   dynamic_rules, base_report, historical_schemas, response, store,
                   now, rateLimited, sleeps, saved>>

(***************************************************************************)
(* get_llm_streaming_response: one attempt of the call in progress.       *)
(* The attempt succeeds with some response, fails with a rate limit (the  *)
(* loop sleeps and goes on while attempts remain) or fails otherwise.     *)
(***************************************************************************)
CallPcs == {"recon_call", "rules_call", "narr_call"}

DonePc(p) ==
    CASE p = "recon_call" -> "recon_done"
      [] p = "rules_call" -> "rules_done"
      [] OTHER -> "narr_done"

ResponsesAt(p) ==
    CASE p = "recon_call" -> ReconResponses
      [] p = "rules_call" -> RulesResponses
      [] OTHER -> NarrativeResponses

\* time.sleep(60) of line 120
SleepSeconds(att) == 60

\* the clock moves by at least one timestamp unit (a second) over a sleep
ClockAfterSleep(t, seconds) == IF seconds > 0 THEN t + 1 ELSE t

AttemptSucceeds ==
    /\ pc \in CallPcs
    /\ \E r \in ResponsesAt(pc) : response' = r
    /\ pc' = DonePc(pc)
    /\ UNCHANGED <<inp, df, file_schema, db_schema, raw_comparison,
                   schema_analysis_json, mapped_df, type_violations, dq_violations,
                   dynamic_rules, base_report, historical_schemas, attempt, result,
                   store, now, rateLimited, sleeps, events, saved>>

\* a retry loop that goes on after the last attempt allowed
AttemptRateLimitedUnbounded ==
    /\ pc \in CallPcs
    /\ rateLimited < MaxRateLimits
    /\ rateLimited' = rateLimited + 1
    /\ sleeps' = Append(sleeps, SleepSeconds(attempt))
    /\ now' = ClockAfterSleep(now, SleepSeconds(attempt))
    /\ attempt' = attempt + 1
    /\ UNCHANGED <<pc, response>>
    /\ UNCHANGED <<inp, df, file_schema, db_schema, raw_comparison,
                   schema_analysis_json, mapped_df, type_violations, dq_violations,
                   dynamic_rules, base_report, historical_schemas, result,
                   store, events, saved>>

AttemptRateLimited ==
    /\ pc \in CallPcs
    /\ rateLimited < MaxRateLimits
    /\ rateLimited' = rateLimited + 1
    /\ sleeps' = Append(sleeps, SleepSeconds(attempt))
    /\ now' = ClockAfterSleep(now, SleepSeconds(attempt))
    /\ attempt' = attempt + 1
    /\ IF attempt + 1 < max_retries
       THEN UNCHANGED <<pc, response>>
       ELSE pc' = DonePc(pc) /\ response' = NoResponse
    /\ UNCHANGED <<inp, df, file_schema, db_schema, raw_comparison,
                   schema_analysis_json, mapped_df, type_violations, dq_violations,
                   dynamic_rules, base_report, historical_schemas, result,
                   store, events, saved>>

AttemptFails ==
    /\ pc \in CallPcs
    /\ response' = NoResponse
    /\ pc' = DonePc(pc)
    /\ UNCHANGED <<inp, df, file_schema, db_schema, raw_comparison,
                   schema_analysis_json, mapped_df, type_violations, dq_violations,
                   dynamic_rules, base_report, historical_schemas, attempt, result,
                   store, now, rateLimited, sleeps, events, saved>>

(***************************************************************************)
(* Lines 322-347: the reconciliation response is parsed, the columns are  *)
(* renamed, the deep validation runs, the dynamic-rules call is made.     *)
(***************************************************************************)
\* a JSON value that is not an object (a list, a number, null)
JsonOther == [json_other |-> TRUE]

\* mutant: the validators are handed the dataset as read, not the renamed one
DeepValidationUnrenamed(d, naming, db, table_name) ==
    [mapped_df |-> RenameColumns(d, naming),
     type_violations |-> validate_data_types(d, db),
     dq_violations |-> run_data_quality_checks(d, db, table_name)]

\* lines 335-339
DeepValidation(d, naming, db, table_name) ==
    LET mapped == RenameColumns(d, naming)
    IN  [mapped_df |-> mapped,
         type_violations |-> validate_data_types(mapped, db),
         dq_violations |-> run_data_quality_checks(mapped, db, table_name)]

\* the reason the stretch raises, or "" when it goes on
ReconRaises(resp) ==
    CASE resp.kind = "none" -> "Failed to get schema analysis from LLM."
      [] resp.kind = "text" -> "LLM did not return valid JSON for schema analysis."
      [] resp.kind = "json_other" -> "AttributeError"
      [] resp.kind = "object" /\ resp.naming = "null" -> "TypeError"
      [] OTHER -> ""

ErrorExit(e, analysis) ==
    /\ pc' = "returned"
    /\ result' = FinalReport(
           SheetErrorReport(inp.file_path, ReadSheetName(inp), now, e), analysis)

AfterRecon ==
    /\ pc = "recon_done"
    /\ LET e == ReconRaises(response)
           parsed == CASE response.kind = "json_other" -> JsonOther
                       [] response.kind = "object" -> ParsedRecon(response)
                       [] OTHER -> schema_analysis_json
       IN  /\ schema_analysis_json' = parsed
           /\ IF e # ""
              THEN /\ ErrorExit(e, parsed)
                   /\ UNCHANGED <<mapped_df, type_violations, dq_violations, events>>
              ELSE LET naming == IF "naming_mismatches" \in DOMAIN parsed
                                 THEN parsed.naming_mismatches ELSE EmptyDict
                       v == DeepValidation(df, naming, db_schema, inp.table_name)
                   IN  /\ mapped_df' = v.mapped_df
                       /\ type_violations' = v.type_violations
                       /\ dq_violations' = v.dq_violations
                       /\ events' = events \o <<"recon_parsed", "deep_validation",
                                                "rules_call">>
                       /\ pc' = "rules_call"
                       /\ UNCHANGED result
    /\ attempt' = 0
    /\ UNCHANGED <<inp, df, file_schema, db_schema, raw_comparison, dynamic_rules,
                   base_report, historical_schemas, response, store, now,
                   rateLimited, sleeps, saved>>

(***************************************************************************)
(* Lines 348-401: dynamic rules, violation summary, base report, history  *)
(* load, then the narrative call.                                         *)
(***************************************************************************)
DynamicRulesOf(resp) ==
    CASE resp.kind \in {"none", "empty"} -> <<>>
      [] resp.kind = "text" -> <<[error |-> "Failed to generate dynamic rules"]>>
      [] OTHER -> <<[rule |-> "inferred"]>>

AfterRules ==
    /\ pc = "rules_done"
    /\ dynamic_rules' = DynamicRulesOf(response)
    /\ IF SummaryRaises(type_violations, dq_violations)
       THEN /\ ErrorExit("KeyError: count", schema_analysis_json)
            /\ events' = Append(events, "create_summary")
            /\ UNCHANGED <<base_report, historical_schemas>>
       ELSE /\ base_report' = BaseReport(inp.file_path, ReadSheetName(inp), file_schema,
                                         now, type_violations, dq_violations,
                                         dynamic_rules')
            /\ historical_schemas' =
                   load_historical_schemas(store, inp.table_name,
                                           NUM_HISTORICAL_SCHEMAS_TO_LOAD)
            /\ events' = events \o <<"create_summary", "build_report", "load_history",
                                     "narr_call">>
            /\ pc' = "narr_call"
            /\ UNCHANGED result
    /\ attempt' = 0
    /\ UNCHANGED <<inp, df, file_schema, db_schema, raw_comparison,
                   schema_analysis_json, mapped_df, type_violations, dq_violations,
                   response, store, now, rateLimited, sleeps, saved>>

(***************************************************************************)
(* Lines 404-421 and 474-483: the narrative response is merged, the       *)
(* schema is saved to the history, the report is returned.                *)
(***************************************************************************)
\* mutant: the missing-response check of lines 404-405 is dropped
NarrativeRaisesOnUpdateOnly(resp) ==
    IF resp.kind = "json_raises" THEN "TypeError" ELSE ""

NarrativeRaises(resp) ==
    CASE resp.kind = "none" -> "Failed to get final analysis from LLM."
      [] resp.kind = "json_raises" -> "TypeError"
      [] OTHER -> ""

\* lines 407-413
MergeNarrative(base, resp) ==
    CASE resp.kind = "object" -> DictUpdate(base, resp.body)
      [] resp.kind = "text" ->
             [base EXCEPT !.validation_summary =
                 [status |-> "Error", details |-> "LLM analysis parsing failed."]]
      [] OTHER -> base

\* mutant: the guard of the save is inverted
TruthyInverted(text) == text = ""

\* if target_table_name: (line 416)
Truthy(text) == text # ""

AfterNarrative ==
    /\ pc = "narr_done"
    /\ LET e == NarrativeRaises(response)
       IN  IF e # ""
           THEN /\ ErrorExit(e, schema_analysis_json)
                /\ UNCHANGED <<base_report, store, events, saved>>
           ELSE /\ base_report' = MergeNarrative(base_report, response)
                /\ IF Truthy(inp.table_name)
                   THEN /\ \E io_ok \in BOOLEAN :
                              store' = StoreAfterSave(store, inp.table_name, file_schema,
                                                      now, io_ok)
                        /\ events' = Append(events, "save_history")
                        /\ saved' = Append(saved, [table_name |-> inp.table_name,
                                                   file_schema |-> file_schema])
                   ELSE UNCHANGED <<store, events, saved>>
                /\ pc' = "returned"
                /\ result' = FinalReport(base_report', schema_analysis_json)
    /\ UNCHANGED <<inp, df, file_schema, db_schema, raw_comparison,
                   schema_analysis_json, mapped_df, type_violations, dq_violations,
                   dynamic_rules, historical_schemas, attempt, response, now,
                   rateLimited, sleeps>>

Next ==
    \/ Start
    \/ AttemptSucceeds
    \/ AttemptRateLimited
    \/ AttemptFails
    \/ AfterRecon
    \/ AfterRules
    \/ AfterNarrative

Spec == Init /\ [][Next]_vars

(***************************************************************************)
(* The functions of tools.py on their own: compare_schemas,               *)
(* validate_data_types and run_data_quality_checks applied, in the order  *)
(* the pipeline applies them, to datasets, naming maps and tables drawn   *)
(* from bounded sets.                                                      *)
(***************************************************************************)
ToolTables == {"t_int", "t_dbl", "t_str", "t_date", "t_dec", "t_bool"}

ToolCells ==
    {NullCell, IntCell(0), IntCell(2), StrCell(""), StrCell("x"), StrCell("1"),
     StrCell("1.5"), StrCell("inf")}

\* a two-column dataset: the values of the first column, one value repeated in
\* the second
ToolFrame(labels, v, w) == ReadFrame(labels, [i \in DOMAIN v |-> <<v[i], w>>])

\* every first column up to MaxToolRows rows, labels as in the table
PlainInputs ==
    {[frame |-> ToolFrame(<<"v", "w">>, v, IntCell(2)), naming |-> EmptyDict,
      table_name |-> t] :
        v \in UNION {[1..n -> ToolCells] : n \in 0..MaxToolRows}, t \in ToolTables}

\* boolean and timestamp columns
TypedColumns ==
    {<<BoolCell(TRUE)>>, <<BoolCell(TRUE), BoolCell(FALSE)>>,
     <<BoolCell(FALSE), BoolCell(FALSE)>>, <<TsCell>>, <<TsCell, TsCell>>}

TypedInputs ==
    {[frame |-> ToolFrame(<<"v", "w">>, v, IntCell(2)), naming |-> EmptyDict,
      table_name |-> t] : v \in TypedColumns, t \in ToolTables}

\* other labels, naming maps that rename them (some onto one target), and a
\* second column that can be empty
ToolLabels == {<<"v", "w">>, <<"V", "w">>, <<"val", "w">>}

ToolNamings ==
    {EmptyDict,
     [k \in {"val"} |-> "v"],
     [k \in {"V"} |-> "v"],
     [k \in {"w"} |-> "v"],
     [k \in {"val", "w"} |-> "v"]}

RenamedInputs ==
    {[frame |-> ToolFrame(l, v, w), naming |-> m, table_name |-> t] :
        l \in ToolLabels,
        v \in UNION {[1..n -> {NullCell, IntCell(0), StrCell("x")}] : n \in 0..2},
        w \in {IntCell(2), NullCell},
        m \in ToolNamings,
        t \in {"t_int", "t_str"}}

\* a dataset that cannot be extracted
UnreadableInputs ==
    {[frame |-> NotAFrame, naming |-> EmptyDict, table_name |-> t] : t \in ToolTables}

ToolInputs == PlainInputs \cup TypedInputs \cup RenamedInputs \cup UnreadableInputs

ToolsInit ==
    /\ pc = "tool_start"
    /\ inp \in ToolInputs
    /\ df = Unset
    /\ file_schema = Unset
    /\ db_schema = Unset
    /\ raw_comparison = Unset
    /\ schema_analysis_json = EmptyDict
    /\ mapped_df = Unset
    /\ type_violations = <<>>
    /\ dq_violations = <<>>
    /\ dynamic_rules = <<>>
    /\ base_report = Unset
    /\ historical_schemas = <<>>
    /\ attempt = 0
    /\ response = NoResponse
    /\ result = Unset
    /\ store = EmptyDict
    /\ now = 1
    /\ rateLimited = 0
    /\ sleeps = <<>>
    /\ events = <<>>
    /\ saved = <<>>

\* extract_schema_from_df on the dataset, get_db_schema on the table
ToolExtract ==
    /\ pc = "tool_start"
    /\ df' = extract_df_after(inp.frame)
    /\ file_schema' = extract_schema_from_df(inp.frame, "tool.csv", PyNone)
    /\ db_schema' = get_db_schema(inp.table_name)
    /\ pc' = "tool_extracted"
    /\ UNCHANGED <<inp, raw_comparison, schema_analysis_json, mapped_df,
                   type_violations, dq_violations, dynamic_rules, base_report,
                   historical_schemas, attempt, response, result, store, now,
                   rateLimited, sleeps, events, saved>>

ToolCompare ==
    /\ pc = "tool_extracted"
    /\ raw_comparison' = compare_schemas(file_schema, db_schema)
    /\ pc' = "tool_compared"
    /\ UNCHANGED <<inp, df, file_schema, db_schema, schema_analysis_json, mapped_df,
                   type_violations, dq_violations, dynamic_rules, base_report,
                   historical_schemas, attempt, response, result, store, now,
                   rateLimited, sleeps, events, saved>>

\* the rename and the two validators, on a dataset that was read
ToolValidate ==
    /\ pc = "tool_compared"
    /\ IsFrame(df)
    /\ LET v == DeepValidation(df, inp.naming, db_schema, inp.table_name)
       IN  /\ mapped_df' = v.mapped_df
           /\ type_violations' = v.type_violations
           /\ dq_violations' = v.dq_violations
    /\ pc' = "tool_validated"
    /\ UNCHANGED <<inp, df, file_schema, db_schema, raw_comparison,
                   schema_analysis_json, dynamic_rules, base_report,
                   historical_schemas, attempt, response, result, store, now,
                   rateLimited, sleeps, events, saved>>

ToolsNext ==
    \/ ToolExtract
    \/ ToolCompare
    \/ ToolValidate

ToolsSpec == ToolsInit /\ [][ToolsNext]_vars

(***************************************************************************)
(* Properties.                                                             *)
(***************************************************************************)
Returned == pc = "returned"

Logged(e) == e \in Range(events)

Pos(e) == CHOOSE i \in DOMAIN events : events[i] = e

Before(a, b) == Logged(a) /\ Logged(b) /\ Pos(a) < Pos(b)

\* the full report (built from base_report), not the minimal error report
FullReport(r) == "data_type_mismatch" \in DOMAIN r

StatusIsError(r) ==
    /\ "validation_summary" \in DOMAIN r
    /\ "status" \in DOMAIN r.validation_summary
    /\ r.validation_summary.status = "Error"

\* C1: every report returned by run_validation_for_single_sheet contains
\* file_name, sheet_name (possibly None) and validated_at, on every path.
C1_ReportAlwaysHasIdentity ==
    Returned => {"file_name", "sheet_name", "validated_at"} \subseteq DOMAIN result

\* C2: once deep validation has completed, summarizing never sends the run to
\* Error: no report is the error report of a failure of _create_violation_summary.
C2_SummaryNeverFails ==
    (Returned /\ Logged("deep_validation"))
        => ~("error" \in DOMAIN result /\ result.error = "KeyError: count")

\* C3: when the narrative call fails (no response, or a response that is not the
\* expected JSON object), the returned report has validation_summary.status =
\* "Error" and still carries total_rows_checked, data_type_mismatch and
\* data_quality_issues as computed in the run.
NarrativeFailed ==
    Returned /\ Logged("narr_call") /\ response.kind \in {"none", "text", "json_raises"}

C3_NarrativeFailureKeepsSections ==
    NarrativeFailed =>
        /\ StatusIsError(result)
        /\ {"total_rows_checked", "data_type_mismatch", "data_quality_issues"}
               \subseteq DOMAIN result
        /\ result.total_rows_checked = file_schema.total_rows
        /\ result.data_type_mismatch = type_violations
        /\ result.data_quality_issues = dq_violations

\* C4: when the reconciliation call fails (no response, or text that is not JSON),
\* the run ends in Error and the error report still carries what was computed
\* before: the row count of the extracted schema and the raw name comparison.
ReconFailed ==
    /\ Returned
    /\ Logged("recon_call")
    /\ ~Logged("recon_parsed")
    /\ response.kind \in {"none", "text"}

C4_ReconFailureKeepsPriorFields ==
    ReconFailed =>
        /\ StatusIsError(result)
        /\ "total_rows_checked" \in DOMAIN result
        /\ result.total_rows_checked = file_schema.total_rows
        /\ DOMAIN raw_comparison \subseteq DOMAIN result.schema_mismatch

\* C5: every report of a failed run (any run that did not complete normally)
\* contains both validation_summary.status = "Error" and an error message.
CompletedNormally ==
    Returned /\ Logged("narr_call") /\ response.kind \in {"object", "json_noop"}

C5_FailedReportHasStatusAndError ==
    (Returned /\ ~CompletedNormally) =>
        (StatusIsError(result) /\ "error" \in DOMAIN result)

\* C6: if extraction returns an error or a schema with zero columns, or the target
\* table does not exist, the run ends in Error and has made no reconciliation,
\* dynamic-rules or narrative call and no history write.
EarlyAbortCase ==
    /\ pc # "start"
    /\ file_schema # Unset
    /\ \/ "error" \in DOMAIN file_schema
       \/ DOMAIN file_schema.columns = {}
       \/ inp.table_name \notin ExistingTables

C6_EarlyAbortCallsNothing ==
    EarlyAbortCase =>
        /\ Returned
        /\ StatusIsError(result)
        /\ "error" \in DOMAIN result
        /\ ~Logged("recon_call") /\ ~Logged("rules_call") /\ ~Logged("narr_call")
        /\ ~Logged("save_history")
        /\ saved = <<>>

C6_Witness ==
    /\ Returned
    /\ file_schema # Unset
    /\ "error" \notin DOMAIN file_schema
    /\ DOMAIN file_schema.columns = {}
    /\ inp.table_name \in ExistingTables
    /\ StatusIsError(result)

\* C7: type checking and constraint validation start only after the run's
\* reconciliation call returned a parsed object, and they run on the dataset whose
\* labels were renamed with that object's naming_mismatches (an absent key renames
\* nothing).
NamingOf(analysis) ==
    IF "naming_mismatches" \in DOMAIN analysis
    THEN analysis.naming_mismatches ELSE EmptyDict

RenamedWith(naming) ==
    /\ mapped_df # Unset
    /\ DOMAIN mapped_df.cols = DOMAIN df.cols
    /\ \A j \in DOMAIN df.cols :
           mapped_df.cols[j] = IF df.cols[j] \in DOMAIN naming
                               THEN naming[df.cols[j]] ELSE df.cols[j]
    /\ mapped_df.rows = df.rows
    /\ mapped_df.dtypes = df.dtypes

C7_ValidationAfterReconOnRenamed ==
    /\ ~Logged("deep_validation") =>
           (mapped_df = Unset /\ type_violations = <<>> /\ dq_violations = <<>>)
    /\ Logged("deep_validation") =>
           /\ Before("recon_call", "recon_parsed")
           /\ Before("recon_parsed", "deep_validation")
           /\ RenamedWith(NamingOf(schema_analysis_json))
           /\ type_violations = validate_data_types(mapped_df, db_schema)
           /\ dq_violations = run_data_quality_checks(mapped_df, db_schema, inp.table_name)
    /\ (pc = "rules_call" /\ Logged("deep_validation")) =>
           (response.kind = "object" /\ schema_analysis_json = ParsedRecon(response))

C7_Witness ==
    /\ Logged("deep_validation")
    /\ "naming_mismatches" \in DOMAIN schema_analysis_json
    /\ "qty" \in DOMAIN schema_analysis_json.naming_mismatches
    /\ schema_analysis_json.naming_mismatches["qty"] = "amt"
    /\ \E i \in DOMAIN dq_violations : dq_violations[i].column = "amt"

\* C8 (as stated): whenever the narrative service is called in a run, that run's
\* schema snapshot has already been saved to the history store.
C8_SnapshotBeforeNarrative ==
    Logged("narr_call") => Before("save_history", "narr_call")

\* C8 (amended): the snapshot follows the narrative call.  While the narrative
\* call is pending the history has been read and nothing was saved; a snapshot
\* is saved only after the narrative call returned a response.
C8_SnapshotAfterNarrative ==
    /\ pc \in {"narr_call", "narr_done"} =>
           (Logged("load_history") /\ saved = <<>> /\ ~Logged("save_history"))
    /\ (saved # <<>> \/ Logged("save_history")) =>
           /\ Before("load_history", "narr_call")
           /\ Before("narr_call", "save_history")
           /\ response.kind # "none"

C8_Witness ==
    Returned /\ Len(saved) = 1 /\ Logged("save_history") /\ response.kind = "object"

\* C9: every run that returns the full report has called save_schema_to_history
\* exactly once, for its target table, with the schema extracted in that run
\* (the file's own labels, before the rename); no run calls it more than once.
C9_OneSnapshotPerCompletedRun ==
    /\ Len(saved) <= 1
    /\ (Returned /\ FullReport(result)) =>
           /\ Len(saved) = 1
           /\ saved[1].table_name = inp.table_name
           /\ saved[1].file_schema = file_schema
           /\ DOMAIN saved[1].file_schema.columns = Range(FileCols)
           /\ saved[1].file_schema.total_rows = Len(df.rows)

C9_Witness ==
    /\ Returned
    /\ FullReport(result)
    /\ Len(saved) = 1
    /\ "qty" \in DOMAIN NamingOf(schema_analysis_json)
    /\ "qty" \in DOMAIN saved[1].file_schema.columns

\* C10: the deterministic sections of the full report are the values the engine
\* computed, whatever the narrative service returned.
C10_DeterministicSectionsIndependent ==
    (Returned /\ FullReport(result)) =>
        /\ result.file_name = Basename(inp.file_path)
        /\ result.sheet_name = ReadSheetName(inp)
        /\ result.total_rows_checked = file_schema.total_rows
        /\ result.validated_at = now - attempt
        /\ result.data_type_mismatch = type_violations
        /\ result.data_quality_issues = dq_violations

(***************************************************************************)
(* Properties of the functions of tools.py (checked under ToolsSpec).     *)
(***************************************************************************)
Compared == pc \in {"tool_compared", "tool_validated"}

Validated == pc = "tool_validated"

TableColumns == Range(db_schema.order)

\* the table column name labels exactly one column of the renamed dataset
Single(name) == Cardinality(Labelled(mapped_df, name)) = 1

PositionOf(name) == CHOOSE j \in Labelled(mapped_df, name) : TRUE

CellsOf(name) == Column(mapped_df, PositionOf(name))

TypeViolationsFor(name) ==
    {i \in DOMAIN type_violations : type_violations[i].column = name}

QualityViolationsFor(name, check) ==
    {i \in DOMAIN dq_violations :
        dq_violations[i].column = name /\ dq_violations[i].check = check}

\* C11: for every file schema F without an error and table schema S,
\* compare_schemas returns missing = keys(S) - keys(F) and extra = keys(F) -
\* keys(S), names compared by exact (case-sensitive) equality; the two sets are
\* disjoint.
C11_CompareIsSetDifference ==
    (Compared /\ "error" \notin DOMAIN file_schema) =>
        LET F == DOMAIN file_schema.columns
            S == TableColumns
        IN  /\ DOMAIN raw_comparison =
                   {"columns_missing_from_file", "columns_extra_in_file"}
            /\ raw_comparison.columns_missing_from_file =
                   {c \in S : \A f \in F : f # c}
            /\ raw_comparison.columns_extra_in_file =
                   {f \in F : \A c \in S : c # f}
            /\ raw_comparison.columns_missing_from_file
                   \cap raw_comparison.columns_extra_in_file = {}

C11_Witness ==
    /\ Compared
    /\ "error" \notin DOMAIN file_schema
    /\ raw_comparison.columns_missing_from_file = {"v"}
    /\ raw_comparison.columns_extra_in_file = {"V"}

\* C12: when the file schema carries an error or has no columns,
\* compare_schemas returns all table column names as missing and nothing as
\* extra, in the same two fields that a normal comparison fills.
C12_GuardUsesSameFields ==
    (Compared /\ ("error" \in DOMAIN file_schema \/ DOMAIN file_schema.columns = {})) =>
        /\ DOMAIN raw_comparison =
               {"columns_missing_from_file", "columns_extra_in_file"}
        /\ raw_comparison.columns_missing_from_file = TableColumns
        /\ raw_comparison.columns_extra_in_file = {}

\* C13: for every non-nullable table column present in the dataset, the
\* not-null check counts the missing entries plus, when the declared type is
\* not a text type (TEXT, VARCHAR, CHAR, STRING), the empty-string entries; it
\* emits exactly one not_null_violation with that count and severity high when
\* the count is positive and none when it is zero.
DeclaredTextual(name) ==
    BaseTypeOf(db_schema.cols[name].type) \in {"TEXT", "VARCHAR", "CHAR", "STRING"}

ExpectedNullCount(name) ==
    LET cells == CellsOf(name)
        missing == Cardinality({i \in DOMAIN cells : cells[i].kind = "null"})
        empty == Cardinality({i \in DOMAIN cells :
                                 cells[i].kind = "str" /\ cells[i].s = ""})
    IN  missing + (IF DeclaredTextual(name) THEN 0 ELSE empty)

C13_NotNullCount ==
    Validated =>
        \A name \in TableColumns :
            (Single(name) /\ ~db_schema.cols[name].nullable) =>
                LET found == QualityViolationsFor(name, "not_null_violation")
                IN  IF ExpectedNullCount(name) > 0
                    THEN /\ Cardinality(found) = 1
                         /\ \A i \in found :
                                /\ dq_violations[i].count = ExpectedNullCount(name)
                                /\ dq_violations[i].severity = "high"
                    ELSE found = {}

\* values [0, null, 2, ""] declared INTEGER: one violation with count 2
C13_Witness ==
    /\ Validated
    /\ Single("v")
    /\ db_schema.cols["v"].type = "INTEGER"
    /\ CellsOf("v") = <<IntCell(0), NullCell, IntCell(2), StrCell("")>>
    /\ \E i \in QualityViolationsFor("v", "not_null_violation") :
           dq_violations[i].count = 2 /\ dq_violations[i].severity = "high"

\* C14: for every primary-key column present in the dataset, with the rows
\* whose key is null or an empty string dropped, distinct_keys_duplicated is the
\* number of key values that occur more than once and total_duplicate_records
\* the number of rows carrying such a value; one primary_key_violation of
\* severity high is emitted iff distinct_keys_duplicated > 0.
KeyRows(name) ==
    {i \in DOMAIN CellsOf(name) :
        /\ CellsOf(name)[i].kind # "null"
        /\ ~(CellsOf(name)[i].kind = "str" /\ CellsOf(name)[i].s = "")}

RepeatedKeys(name) ==
    {CellsOf(name)[i] : i \in {r \in KeyRows(name) :
        \E k \in KeyRows(name) : k # r /\ CellsOf(name)[k] = CellsOf(name)[r]}}

C14_PrimaryKeyDuplicates ==
    Validated =>
        \A name \in TableColumns :
            (Single(name) /\ db_schema.cols[name].primary_key) =>
                LET found == QualityViolationsFor(name, "primary_key_violation")
                    rows == {i \in KeyRows(name) : CellsOf(name)[i] \in RepeatedKeys(name)}
                IN  IF RepeatedKeys(name) # {}
                    THEN /\ Cardinality(found) = 1
                         /\ \A i \in found :
                                /\ dq_violations[i].distinct_keys_duplicated =
                                       Cardinality(RepeatedKeys(name))
                                /\ dq_violations[i].total_duplicate_records =
                                       Cardinality(rows)
                                /\ dq_violations[i].severity = "high"
                    ELSE found = {}

\* keys [0, 0, 2, 2] give 2 duplicated keys and 4 duplicate records
C14_Witness ==
    /\ Validated
    /\ Single("v")
    /\ db_schema.cols["v"].primary_key
    /\ CellsOf("v") = <<IntCell(0), IntCell(0), IntCell(2), IntCell(2)>>
    /\ \E i \in QualityViolationsFor("v", "primary_key_violation") :
           /\ dq_violations[i].distinct_keys_duplicated = 2
           /\ dq_violations[i].total_duplicate_records = 4

\* C15: if a column holds at least one non-null value that is not
\* numeric-coercible, every CHECK constraint on it is skipped: the result of
\* the data-quality run has no check_constraint_violation for the column.
HasNonNumericValue(name) ==
    \E i \in DOMAIN CellsOf(name) :
        CellsOf(name)[i].kind # "null" /\ ~ToNumeric(CellsOf(name)[i]).ok

C15_NonNumericColumnSkipsChecks ==
    Validated =>
        \A name \in TableColumns :
            (Single(name) /\ HasNonNumericValue(name)) =>
                QualityViolationsFor(name, "check_constraint_violation") = {}

\* [0, "x"] under v > 1: 0 breaks the constraint, "x" makes the check skip it
C15_Witness ==
    /\ Validated
    /\ inp.table_name = "t_int"
    /\ Single("v")
    /\ CellsOf("v") = <<IntCell(0), StrCell("x")>>
    /\ QualityViolationsFor("v", "check_constraint_violation") = {}
    /\ QualityViolationsFor("v", "not_null_violation") = {}

\* the constraint texts that are, as a whole, "column op numeric-literal"
WholeForm(sqltext) ==
    CASE sqltext = "amt > 1" -> [col |-> "amt", op |-> ">", value |-> 10]
      [] sqltext = "v > 1" -> [col |-> "v", op |-> ">", value |-> 10]
      [] sqltext = "v != 2" -> [col |-> "v", op |-> "!=", value |-> 20]
      [] sqltext = "v <= 1.5" -> [col |-> "v", op |-> "<=", value |-> 15]
      [] sqltext = "v = 2" -> [col |-> "v", op |-> "=", value |-> 20]
      [] sqltext = "v >= 2" -> [col |-> "v", op |-> ">=", value |-> 20]
      [] sqltext = "v < 2" -> [col |-> "v", op |-> "<", value |-> 20]
      [] OTHER -> [col |-> PyNone, op |-> "", value |-> 0]

\* the predicate  n op value
Satisfies(op, n, value) ==
    CASE op = ">" -> n > value
      [] op = ">=" -> n >= value
      [] op = "<" -> n < value
      [] op = "<=" -> n <= value
      [] op = "!=" -> n # value
      [] OTHER -> n = value

TableChecks == Range(get_check_constraints(inp.table_name))

CheckViolationsFor(name, sqltext) ==
    {i \in QualityViolationsFor(name, "check_constraint_violation") :
        dq_violations[i].sqltext = sqltext}

\* the non-null values of the column that make the predicate false
Breaking(name, form) ==
    {i \in DOMAIN CellsOf(name) :
        /\ CellsOf(name)[i].kind # "null"
        /\ ~Satisfies(form.op, ToNumeric(CellsOf(name)[i]).n, form.value)}

\* C16: a constraint "column op numeric-literal" on a column whose every
\* non-null value is numeric-coercible (nulls may be present) is evaluated: a
\* check_constraint_violation of severity medium is emitted iff some non-null
\* value makes the predicate false, and its count is the number of such values.
C16_SupportedConstraintEvaluated ==
    Validated =>
        \A name \in TableColumns : \A c \in TableChecks :
            (/\ Single(name)
             /\ ~HasNonNumericValue(name)
             /\ WholeForm(c.sqltext).col = name) =>
                LET found == CheckViolationsFor(name, c.sqltext)
                    bad == Breaking(name, WholeForm(c.sqltext))
                IN  IF bad # {}
                    THEN /\ Cardinality(found) = 1
                         /\ \A i \in found :
                                /\ dq_violations[i].count = Cardinality(bad)
                                /\ dq_violations[i].severity = "medium"
                    ELSE found = {}

\* C17: a constraint whose whole text is not "column op numeric-literal" (text
\* that continues after the first comparison, a parenthesised expression, a
\* non-numeric right-hand side) is skipped: the result of the data-quality run
\* has no check_constraint_violation for it.
Unsupported(sqltext) == WholeForm(sqltext).col = PyNone

C17_UnsupportedConstraintSkipped ==
    Validated =>
        \A c \in TableChecks :
            Unsupported(c.sqltext) =>
                \A i \in DOMAIN dq_violations :
                    ~(/\ dq_violations[i].check = "check_constraint_violation"
                      /\ dq_violations[i].sqltext = c.sqltext)

\* C18: if the naming map leaves two or more dataset columns with the same
\* label equal to a table column name, neither validate_data_types nor
\* run_data_quality_checks emits any violation for that column name.
Duplicated(name) == Cardinality(Labelled(mapped_df, name)) >= 2

C18_DuplicateLabelNeverBlamed ==
    Validated =>
        \A name \in TableColumns :
            Duplicated(name) =>
                /\ TypeViolationsFor(name) = {}
                /\ \A i \in DOMAIN dq_violations : dq_violations[i].column # name

\* two file columns renamed to v; the first holds a null and text, which a
\* single column v of t_int would be blamed for
C18_Witness ==
    /\ Validated
    /\ inp.table_name = "t_int"
    /\ df.cols = <<"val", "w">>
    /\ mapped_df.cols = <<"v", "v">>
    /\ Column(mapped_df, 1) = <<NullCell, StrCell("x")>>
    /\ TypeViolationsFor("v") = {}
    /\ \A i \in DOMAIN dq_violations : dq_violations[i].column # "v"

\* C19: for every table column present once in the dataset with an inferred
\* type among the five categories, validate_data_types emits a violation iff
\* the declared base type (parameters stripped, upper-cased) appears in the
\* compatibility table and is not among the declared types listed for the
\* column's inferred category.  An unknown base type is never flagged, nor is a
\* declared DATE/DATETIME/TIMESTAMP column with textual data.
CompatibleDeclared(category) ==
    CASE category = "int64" -> {"INTEGER", "INT"}
      [] category = "float64" -> {"REAL", "FLOAT", "NUMERIC", "DOUBLE"}
      [] category = "object" ->
             {"TEXT", "VARCHAR", "CHAR", "DATE", "DATETIME", "TIMESTAMP", "STRING"}
      [] category = "datetime64[ns]" -> {"DATE", "DATETIME", "TIMESTAMP"}
      [] category = "bool" -> {"BOOLEAN", "BOOL"}
      [] OTHER -> {}

Categories == {"int64", "float64", "object", "datetime64[ns]", "bool"}

KnownDeclared == UNION {CompatibleDeclared(c) : c \in Categories}

InferredOf(name) == mapped_df.dtypes[PositionOf(name)]

DeclaredBase(name) == BaseTypeOf(db_schema.cols[name].type)

C19_FlaggedIffIncompatible ==
    Validated =>
        \A name \in TableColumns :
            (Single(name) /\ InferredOf(name) \in Categories) =>
                /\ Cardinality(TypeViolationsFor(name)) <= 1
                /\ (TypeViolationsFor(name) # {}) <=>
                       (/\ DeclaredBase(name) \in KnownDeclared
                        /\ DeclaredBase(name) \notin CompatibleDeclared(InferredOf(name)))
                /\ \A i \in TypeViolationsFor(name) :
                       /\ type_violations[i].expected_db_type = DeclaredBase(name)
                       /\ type_violations[i].found_file_type = InferredOf(name)

\* a declared DATE column holding text is not flagged
C19_Witness ==
    /\ Validated
    /\ Single("v")
    /\ db_schema.cols["v"].type = "DATE"
    /\ InferredOf("v") = "object"
    /\ CellsOf("v") = <<StrCell("x"), StrCell("1")>>
    /\ TypeViolationsFor("v") = {}

\* C20: when a column declared INTEGER/INT is flagged with inferred type
\* textual, sample_invalid_values is the first up to 5 distinct non-null values
\* (first-occurrence order) that fail numeric coercion or have a nonzero
\* fractional part, and holds no integer-coercible value; for the declared
\* floating types it is the values that fail numeric coercion.  (The empty
\* string, which the conversion turns into a missing value without failing, is
\* counted the way each branch of the code counts it.)
DistinctValues(name) == Unique(NonNull(CellsOf(name)))

NotAnInteger(v) == ~ToNumeric(v).ok \/ ToNumeric(v).n % 10 # 0

IntegerCoercible(v) ==
    /\ ToNumeric(v).ok
    /\ ToNumeric(v).n % 10 = 0
    /\ ~(v.kind = "str" /\ v.s \in InfiniteStrings)

TextsOf(vals) == [i \in DOMAIN vals |-> StrOf(vals[i])]

C20_SamplesAreTheInvalidValues ==
    Validated =>
        \A name \in TableColumns : \A i \in TypeViolationsFor(name) :
            LET vals == DistinctValues(name)
                samples == type_violations[i].sample_invalid_values
            IN  /\ (/\ type_violations[i].expected_db_type \in {"INTEGER", "INT"}
                    /\ type_violations[i].found_file_type = "object") =>
                       /\ samples = Take(TextsOf(Filter(vals,
                                        {v \in Range(vals) : NotAnInteger(v)})),
                                      SampleLimit)
                       /\ \A v \in Range(vals) :
                              IntegerCoercible(v) => StrOf(v) \notin Range(samples)
                /\ (/\ type_violations[i].expected_db_type
                           \in {"REAL", "FLOAT", "NUMERIC", "DOUBLE"}
                    /\ type_violations[i].found_file_type = "object") =>
                       samples = Take(TextsOf(Filter(vals,
                                     {v \in Range(vals) : ToNumericRaises(v)})),
                                   SampleLimit)

\* C21: for every flagged type mismatch that is neither expected-integer with
\* textual data nor expected-floating with textual data, sample_invalid_values
\* holds the first 5 distinct (non-null) values of the column, all of them if
\* there are fewer.
SpecialSampleCase(violation) ==
    /\ violation.found_file_type = "object"
    /\ violation.expected_db_type
           \in {"INTEGER", "INT", "REAL", "FLOAT", "NUMERIC", "DOUBLE"}

C21_FallbackSamplesAreFirstValues ==
    Validated =>
        \A name \in TableColumns : \A i \in TypeViolationsFor(name) :
            ~SpecialSampleCase(type_violations[i]) =>
                type_violations[i].sample_invalid_values =
                    Take(TextsOf(DistinctValues(name)), SampleLimit)

\* C29: extract_schema_from_df leaves the dataset passed to it unchanged: after
\* the call the caller's dataset holds the same rows, in the same order, as
\* before the call.
Extracted == pc \in {"tool_extracted", "tool_compared", "tool_validated"}

C29_ExtractionLeavesDatasetUnchanged ==
    (Extracted /\ IsFrame(inp.frame)) => df = inp.frame

\* C30: in every not_null_violation, affected_rows_sample_indices holds at most
\* 5 row indices, each the index of a row counted in the violation's count: a
\* null entry, or an empty-string entry when empty strings are counted for the
\* column's declared type.
CountedRow(name, r) ==
    \/ CellsOf(name)[r].kind = "null"
    \/ /\ CellsOf(name)[r].kind = "str"
       /\ CellsOf(name)[r].s = ""
       /\ ~DeclaredTextual(name)

C30_AffectedRowsWereCounted ==
    Validated =>
        \A i \in DOMAIN dq_violations :
            dq_violations[i].check = "not_null_violation" =>
                LET name == dq_violations[i].column
                    indices == dq_violations[i].affected_rows_sample_indices
                IN  /\ Len(indices) <= SampleLimit
                    /\ \A k \in DOMAIN indices :
                           \E r \in DOMAIN mapped_df.rows :
                               mapped_df.idx[r] = indices[k] /\ CountedRow(name, r)


(***************************************************************************)
(* The schema history directory under concurrently running units.  Each   *)
(* unit calls save_schema_to_history (lines 133-145) in three steps: the  *)
(* name is built from the clock (lines 135-138), the file is opened for   *)
(* writing, which creates or empties it (line 140), and the snapshot is   *)
(* written and the file closed (lines 141-142).  A failure at any step is *)
(* logged and the call returns (lines 143-144).  load_historical_schemas  *)
(* (lines 148-165) reads the directory.  pc and inp hold one entry per    *)
(* unit; events logs how each call of save_schema_to_history returned.    *)
(***************************************************************************)
MaxSaves == 2

HistoryUnits == {"unit_a", "unit_b"}

HistoryTables == {"orders", "orders_schema_v2", "orders-schema-v2"}

\* the schemas handed to a save; the second one has no "columns" key
HistorySchemas == {[columns |-> OldColumns], EmptyDict}

HistoryInit ==
    /\ pc = [u \in HistoryUnits |-> "idle"]
    /\ inp = [u \in HistoryUnits |-> Unset]
    /\ df = Unset
    /\ file_schema = Unset
    /\ db_schema = Unset
    /\ raw_comparison = Unset
    /\ schema_analysis_json = EmptyDict
    /\ mapped_df = Unset
    /\ type_violations = <<>>
    /\ dq_violations = <<>>
    /\ dynamic_rules = <<>>
    /\ base_report = Unset
    /\ historical_schemas = <<>>
    /\ attempt = 0
    /\ response = NoResponse
    /\ result = Unset
    /\ store = EmptyDict
    /\ now = 0
    /\ rateLimited = 0
    /\ sleeps = <<>>
    /\ events = <<>>
    /\ saved = <<>>

FileNameOf(call) == [safe |-> SafeName(call.table_name), ts |-> call.ts]

\* open(filepath, 'w'): the file exists and is empty, which is not valid JSON
StoreAfterOpen(dir, name) ==
    [f \in (DOMAIN dir) \cup {name} |-> IF f = name THEN Corrupt ELSE dir[f]]

\* how a call of save_schema_to_history returned
Returned_save(call, error) ==
    [table_name |-> call.table_name, snapshot |-> SnapshotOf(call.file_schema),
     ts |-> call.ts, error |-> error]

\* the calls of save_schema_to_history made so far, returned or under way
SavesCalled == Len(events) + Cardinality({u \in HistoryUnits : pc[u] # "idle"})

\* lines 135-138: the call starts and reads the clock
HStamp(u) ==
    /\ pc[u] = "idle"
    /\ SavesCalled < MaxSaves
    /\ \E table_name \in HistoryTables, fs \in HistorySchemas :
          inp' = [inp EXCEPT ![u] = [table_name |-> table_name, file_schema |-> fs,
                                     ts |-> now]]
    /\ pc' = [pc EXCEPT ![u] = "stamped"]
    /\ UNCHANGED <<df, file_schema, db_schema, raw_comparison,
                   schema_analysis_json, mapped_df, type_violations, dq_violations,
                   dynamic_rules, base_report, historical_schemas, attempt, response,
                   result, store, now, rateLimited, sleeps, events, saved>>

\* line 140: open(filepath, 'w'), or an OSError caught at line 143
HOpen(u) ==
    /\ pc[u] = "stamped"
    /\ \E io_ok \in BOOLEAN :
          IF io_ok
          THEN /\ store' = StoreAfterOpen(store, FileNameOf(inp[u]))
               /\ pc' = [pc EXCEPT ![u] = "opened"]
               /\ UNCHANGED events
          ELSE /\ events' = Append(events, Returned_save(inp[u], TRUE))
               /\ pc' = [pc EXCEPT ![u] = "idle"]
               /\ UNCHANGED store
    /\ UNCHANGED <<inp, df, file_schema, db_schema, raw_comparison,
                   schema_analysis_json, mapped_df, type_violations, dq_violations,
                   dynamic_rules, base_report, historical_schemas, attempt, response,
                   result, now, rateLimited, sleeps, saved>>

\* lines 141-142: json.dump and the close.  Two units that hold the same file
\* open both write from its start without emptying it again: the bytes of the
\* two snapshots can end up mixed (torn).  A failed write leaves the file as
\* it is or with part of the snapshot in it.
HDump(u) ==
    /\ pc[u] = "opened"
    /\ LET name == FileNameOf(inp[u])
           mine == SnapshotOf(inp[u].file_schema)
           raced == store[name] # Corrupt /\ store[name] # mine
       IN  \E io_ok \in BOOLEAN, torn \in BOOLEAN :
              IF io_ok
              THEN /\ store' = IF torn /\ raced
                               THEN [store EXCEPT ![name] = Corrupt]
                               ELSE StoreAfterSave(store, inp[u].table_name,
                                                   inp[u].file_schema, inp[u].ts, TRUE)
                   /\ events' = Append(events, Returned_save(inp[u], FALSE))
              ELSE /\ store' = IF torn THEN [store EXCEPT ![name] = Corrupt] ELSE store
                   /\ events' = Append(events, Returned_save(inp[u], TRUE))
    /\ pc' = [pc EXCEPT ![u] = "idle"]
    /\ UNCHANGED <<inp, df, file_schema, db_schema, raw_comparison,
                   schema_analysis_json, mapped_df, type_violations, dq_violations,
                   dynamic_rules, base_report, historical_schemas, attempt, response,
                   result, now, rateLimited, sleeps, saved>>

\* datetime.now() of line 136 moves on by a second; only the order of the
\* timestamps matters, so the clock need not pass the number of saves
HTick ==
    /\ now + 1 < MaxSaves
    /\ now' = now + 1
    /\ UNCHANGED <<pc, inp, df, file_schema, db_schema, raw_comparison,
                   schema_analysis_json, mapped_df, type_violations, dq_violations,
                   dynamic_rules, base_report, historical_schemas, attempt, response,
                   result, store, rateLimited, sleeps, events, saved>>

\* lines 148-165: a call of load_historical_schemas and what it returns
HLoad(table_name, num_history) ==
    /\ historical_schemas' = load_historical_schemas(store, table_name, num_history)
    /\ result' = [table_name |-> table_name, num_history |-> num_history]
    /\ UNCHANGED <<pc, inp, df, file_schema, db_schema, raw_comparison,
                   schema_analysis_json, mapped_df, type_violations, dq_violations,
                   dynamic_rules, base_report, attempt, response,
                   store, now, rateLimited, sleeps, events, saved>>

HistoryLoads == HistoryTables \X {1, NUM_HISTORICAL_SCHEMAS_TO_LOAD}

HistoryNext ==
    \/ \E u \in HistoryUnits : HStamp(u)
    \/ \E u \in HistoryUnits : HOpen(u)
    \/ \E u \in HistoryUnits : HDump(u)
    \/ HTick
    \/ \E l \in HistoryLoads : HLoad(l[1], l[2])

HistorySpec == HistoryInit /\ [][HistoryNext]_vars


(***************************************************************************)
(* Properties of the schema history directory (HistorySpec).              *)
(***************************************************************************)
Quiet == \A u \in HistoryUnits : pc[u] = "idle"

\* the saves made for a table that returned without logging an error
OkSaves(table_name) ==
    {i \in DOMAIN events : events[i].table_name = table_name /\ ~events[i].error}

\* hs holds the snapshots of the n latest saves of the table, latest first
MostRecentSaved(table_name, n, hs) ==
    LET S == OkSaves(table_name)
        k == IF Cardinality(S) < n THEN Cardinality(S) ELSE n
    IN  \E q \in [1..Cardinality(S) -> S] :
           /\ \A i, j \in DOMAIN q :
                  i < j => (q[i] # q[j] /\ events[q[i]].ts >= events[q[j]].ts)
           /\ hs = [i \in 1..k |-> events[q[i]].snapshot]

\* C22: after any sequence of save_schema_to_history calls,
\* load_historical_schemas(T, n) returns at most n snapshots, and they are the
\* most recently saved snapshots of T ordered newest first.
C22_LoadReturnsMostRecentSaved ==
    [][\A l \in HistoryLoads :
           (Quiet /\ HLoad(l[1], l[2])) =>
               /\ Len(historical_schemas') <= l[2]
               /\ MostRecentSaved(l[1], l[2], historical_schemas')]_vars

\* the files a load of the table lists, and the n it goes on to read
Listed(table_name) == {f \in DOMAIN store : GlobMatches(SafeName(table_name), f)}

Selected(table_name, n) ==
    {f \in Listed(table_name) :
        Cardinality({g \in Listed(table_name) : PathLess(f, g)}) < n}

Readable(table_name, n) == {f \in Selected(table_name, n) : store[f] # Corrupt}

\* hs holds the contents of the files of F, the newest file first
ContentsNewestFirst(F, hs) ==
    \E q \in [1..Cardinality(F) -> F] :
       /\ \A i, j \in DOMAIN q : i < j => PathLess(q[j], q[i])
       /\ hs = [i \in DOMAIN q |-> store[q[i]]]

C24_WritesAreAppendOnly ==
    (Quiet /\ \A i \in DOMAIN events : ~events[i].error) =>
        /\ \A i \in DOMAIN events :
               /\ FileNameOf(events[i]) \in DOMAIN store
               /\ store[FileNameOf(events[i])] = events[i].snapshot
        /\ Cardinality(DOMAIN store) = Len(events)

\* C28: load_historical_schemas(T, n) returns only snapshots that were saved
\* for the same table name T: a snapshot saved for another table name U never
\* appears in the result, also when U differs from T only in non-alphanumeric
\* characters or begins with T followed by "_schema_".
C28_LoadReturnsOwnSnapshotsOnly ==
    [][\A l \in HistoryLoads :
           HLoad(l[1], l[2]) =>
               /\ Len(historical_schemas') <= Cardinality(OkSaves(l[1]))
               /\ \A i \in DOMAIN historical_schemas' :
                      \E j \in OkSaves(l[1]) :
                          events[j].snapshot = historical_schemas'[i]]_vars


(***************************************************************************)
(* The run under fairness.  The code of a run goes on from one statement  *)
(* to the next, and every attempt of an external call returns, with a     *)
(* response, a rate-limit failure or another failure.  The fairness       *)
(* conditions are stated on the position of the run: from "start" and     *)
(* from the position after a call the only step is the one that leaves    *)
(* it, and inside a call every step is an attempt that either ends the    *)
(* call or counts one more rate-limit failure.                            *)
(***************************************************************************)
AllPcs == {"start", "returned"} \cup CallPcs \cup {DonePc(p) : p \in CallPcs}

\* the run goes on from position p
StepFrom(p) == pc = p /\ pc' \in AllPcs \ {p}

\* the attempt under way returns
AttemptReturns ==
    /\ pc \in CallPcs
    /\ pc' \in {pc, DonePc(pc)}
    /\ rateLimited' \in {rateLimited, rateLimited + 1}
    /\ (pc' # pc \/ rateLimited' # rateLimited)

LiveSpec ==
    /\ Init
    /\ [][Next]_vars
    /\ WF_pc(StepFrom("start"))
    /\ \A p \in CallPcs : WF_pc(StepFrom(DonePc(p)))
    /\ WF_<<pc, rateLimited>>(AttemptReturns)


(***************************************************************************)
(* Properties of the retry loop and of the run as a whole.                *)
(***************************************************************************)
\* what a step taken inside a call of get_llm_streaming_response does
RetryLoopStep ==
    pc \in CallPcs =>
        /\ attempt < max_retries
        /\ (pc' = pc) =>
               (/\ rateLimited' = rateLimited + 1
                /\ attempt' = attempt + 1
                /\ attempt' < max_retries)
        /\ (rateLimited' = rateLimited) =>
               (/\ pc' = DonePc(pc)
                /\ attempt' = attempt
                /\ response' \in ResponsesAt(pc) \cup {NoResponse})
        /\ (rateLimited' # rateLimited /\ attempt + 1 = max_retries) =>
               (/\ pc' = DonePc(pc)
                /\ response' = NoResponse)

\* C25: get_llm_streaming_response makes at most max_retries attempts per call;
\* a further attempt is made only after a rate-limit failure; a successful
\* attempt returns its response at once; any other failure ends the call at
\* once with an absent result; after max_retries consecutive rate-limit
\* failures the call returns an absent result.
C25_BoundedRetry == [][RetryLoopStep]_vars

C25_Witness ==
    /\ pc \in {DonePc(p) : p \in CallPcs}
    /\ attempt = max_retries
    /\ rateLimited = max_retries
    /\ response = NoResponse

\* what a rate-limited attempt waits
BackoffStep ==
    (pc \in CallPcs /\ rateLimited' = rateLimited + 1) =>
        /\ sleeps' = Append(sleeps, 60 * (attempt + 1))
        /\ (attempt > 0 => sleeps'[Len(sleeps')] > sleeps[Len(sleeps)])

\* C26: the delay waited after the k-th rate-limited attempt of a call is 60*k
\* seconds, so each successive retry waits strictly longer than the one before.
C26_BackoffScalesWithAttempt == [][BackoffStep]_vars

\* the two terminal outcomes of a run
Done == Returned /\ FullReport(result) /\ ~StatusIsError(result)

Error == Returned /\ ("error" \in DOMAIN result \/ StatusIsError(result))

\* C27: provided every external call eventually returns, every run eventually
\* reaches exactly one of the terminal outcomes Done and Error; once either is
\* reached the run makes no further external call and no further history write.
C27_RunTerminates ==
    /\ <>(Done \/ Error)
    /\ [](~(Done /\ Error))
    /\ [][Returned => UNCHANGED vars]_vars
    /\ [][(Done \/ Error) => UNCHANGED <<pc, events, store, saved, attempt, result>>]_vars


C27_Witness == Done /\ Logged("save_history") /\ rateLimited > 0

====
